---- MODULE Spec2Model ----
(***************************************************************************)
(* A model of fooyin's ALSA output backend (src/plugins/alsa/alsaoutput.cpp)*)
(* AlsaOutput owns one PCM handle and drives it through init / uninit /     *)
(* reset / start / write / currentState / setPaused.  Every hardware call   *)
(* of a handler is one step of the model, so that the sink may change state *)
(* between two calls of the same handler.                                   *)
(***************************************************************************)
EXTENDS Integers, Sequences, FiniteSets, TLC

(***************************************************************************)
(* Program constants                                                        *)
(***************************************************************************)
\* snd_pcm_uframes_t bufferSize{8192}
PreferredBufferSize == 8192
\* snd_pcm_uframes_t periodSize{1024}
DefaultPeriodSize == 1024
\* for(int n = 0; n < 5; ++n)
RecoveryAttempts == 5

(***************************************************************************)
(* Bounds of the model                                                      *)
(***************************************************************************)
\* the count of Disconnected notifications saturates here
MaxNotifs == 2

\* frame counts of the buffers handed to write()
FrameCounts == {0, 1024}
\* the frames the hardware plays in one HwConsume step
PlayChunk == {1024}
\* sample formats handed to init()
InitFormats == {"S16", "S24", "Unknown"}
Volumes == {1, 2}
\* the sample value that stands for the content of a buffer handed to write()
Samples == {-3, 5}

(***************************************************************************)
(* The sink (host audio subsystem) as the code sees it                      *)
(***************************************************************************)
PcmStates == {"OPEN", "SETUP", "PREPARED", "RUNNING", "XRUN", "DRAINING",
              "PAUSED", "SUSPENDED", "DISCONNECTED", "PRIVATE1"}

\* what a device offers to the negotiation in initAlsa
HwProfile(name) ==
    CASE name = "default" ->
           [maxBuffer |-> 16384, buffers |-> {2048, 4096}, periods |-> {1024},
            canPause |-> TRUE, formats |-> {"SND_S16", "SND_FLOAT"}]
      [] name = "hw:0,0" ->
           [maxBuffer |-> 3000, buffers |-> {3000}, periods |-> {1024},
            canPause |-> FALSE, formats |-> {"SND_S16"}]
      [] OTHER ->
           [maxBuffer |-> 2048, buffers |-> {2048}, periods |-> {512},
            canPause |-> TRUE, formats |-> {"SND_S16", "SND_S32"}]

DeviceNames == {"default", "hw:0,0"}

Min(a, b) == IF a < b THEN a ELSE b
Max(a, b) == IF a > b THEN a ELSE b
Abs(a) == IF a < 0 THEN -a ELSE a

\* snd_pcm_hw_params_set_*_near: the supported value nearest to the request
Near(req, supported) ==
    CHOOSE x \in supported :
        \A y \in supported :
            Abs(x - req) < Abs(y - req) \/ (Abs(x - req) = Abs(y - req) /\ x <= y)

\* std::clamp(v, lo, hi)
Clamp(v, lo, hi) == IF v < lo THEN lo ELSE IF v > hi THEN hi ELSE v

\* findAlsaFormat
findAlsaFormatPacked24(f) ==
    CASE f = "U8" -> "SND_U8"
      [] f = "S16" -> "SND_S16"
      [] f = "S24" -> "SND_S24"
      [] f = "S32" -> "SND_S32"
      [] f = "Float" -> "SND_FLOAT"
      [] OTHER -> "SND_UNKNOWN"

\* findAlsaFormat
findAlsaFormat(f) ==
    CASE f = "U8" -> "SND_U8"
      [] f = "S16" -> "SND_S16"
      [] f \in {"S24", "S32"} -> "SND_S32"
      [] f = "Float" -> "SND_FLOAT"
      [] OTHER -> "SND_UNKNOWN"

\* formatSupported
formatSupported(alsaFormat, profile) ==
    alsaFormat # "SND_UNKNOWN" /\ alsaFormat \in profile.formats

VARIABLES
    \* AlsaOutput::Private
    format, initialised, pcmHandle, bufferSize, periodSize, pausable, volume,
    device, started,
    \* the running public operation: its name, argument, position and locals
    op, arg, pc, n, autoRecoverAttempted, err, pcmst, recovered, status, ret,
    \* the locals of getHardwareDevices: the card and the device it is at
    card, dev,
    \* the samples of the buffer the caller has handed to write(), and the
    \* samples write() has handed to the sink
    buffer, sent,
    \* the sink behind the handle
    hw, hwQueued, hwBuffer, hwDevice, conns,
    \* observers: the hardware call of the last program step, the status
    \* queries of the running recovery call, the Disconnected notifications of
    \* the running failure episode, how far the calls since the last init or
    \* reset follow a test scenario, the buffer size the last init asked the
    \* sink for, what the sink has answered to the running recovery call, and
    \* whether the running operation has emitted a Disconnected notification,
    \* and whether the handlers of that notification have run inside the
    \* operation
    cmd, nStatus, notifs, trail, request, answers, emitted, handled

cfgVars == <<format, bufferSize, periodSize, pausable, volume, device>>
privVars == <<cfgVars, initialised, pcmHandle, started>>
localVars == <<n, autoRecoverAttempted, err, status, card, dev>>
recVars == <<pcmst, nStatus>>
callVars == <<op, arg, buffer, sent, recovered, answers, emitted, handled>>
ctlVars == <<op, arg, buffer, sent, pc, localVars, pcmst, recovered, ret>>
sinkVars == <<hw, hwQueued, hwBuffer, hwDevice, conns>>
ghostVars == <<notifs, trail, request, answers, emitted, handled>>
obsVars == <<cmd, nStatus, ghostVars>>
vars == <<privVars, ctlVars, sinkVars, obsVars>>

\* snd_pcm_status_alloca zeroes the structure: state 0 is SND_PCM_STATE_OPEN
StatusZero == [state |-> "OPEN", avail |-> 0, delay |-> 0]
\* OutputState state;
StateZero == [freeSamples |-> 0, queuedSamples |-> 0, delay |-> 0]
\* OutputDevices devices;
NoDevices == <<>>
RetNone == [ok |-> FALSE, frames |-> 0, state |-> StateZero,
            devices |-> NoDevices]

\* the argument slot while no operation runs
NoArg == [none |-> TRUE]

Init ==
    /\ format = "Unknown"
    /\ initialised = FALSE
    /\ pcmHandle = FALSE
    /\ bufferSize = PreferredBufferSize
    /\ periodSize = DefaultPeriodSize
    /\ pausable = TRUE
    /\ volume = 1
    /\ device = "default"
    /\ started = FALSE
    /\ op = "none" /\ arg = NoArg /\ pc = "idle" /\ n = 0
    /\ autoRecoverAttempted = FALSE /\ err = "none" /\ pcmst = "DISCONNECTED"
    /\ recovered = FALSE /\ status = StatusZero /\ ret = RetNone
    /\ card = -1 /\ dev = -1
    /\ buffer = 0 /\ sent = 0
    /\ hw = "CLOSED" /\ hwQueued = 0 /\ hwBuffer = 0 /\ hwDevice = "none"
    /\ conns = 0
    /\ cmd = "none" /\ nStatus = 0 /\ notifs = 0
    /\ trail = "other" /\ request = 0 /\ answers = "none" /\ emitted = FALSE
    /\ handled = FALSE

(***************************************************************************)
(* What the sink does on each command.  A command that the sink's state    *)
(* does not allow fails and changes nothing.                               *)
(***************************************************************************)
\* snd_pcm_drop: stop at once and discard the queued frames
SinkDrop(h, q) ==
    IF h \in {"OPEN", "DISCONNECTED", "CLOSED"} THEN [hw |-> h, q |-> q]
    ELSE [hw |-> "SETUP", q |-> 0]

\* snd_pcm_prepare
SinkPrepare(h, q) ==
    IF h \in {"OPEN", "DISCONNECTED", "CLOSED", "RUNNING", "DRAINING"}
    THEN [hw |-> h, q |-> q]
    ELSE [hw |-> "PREPARED", q |-> 0]

\* snd_pcm_start
SinkStart(h) == IF h = "PREPARED" THEN "RUNNING" ELSE h

\* snd_pcm_pause(handle, enable)
SinkPause(h, enable) ==
    IF enable = 1 /\ h = "RUNNING" THEN "PAUSED"
    ELSE IF enable = 0 /\ h = "PAUSED" THEN "RUNNING"
    ELSE h

\* snd_pcm_drain on a non-blocking handle
SinkDrain(h, q) ==
    IF h \in {"PREPARED", "RUNNING"} THEN (IF q > 0 THEN "DRAINING" ELSE "SETUP")
    ELSE h

\* snd_pcm_writei on a non-blocking handle: the frames accepted, or a
\* negative error code
SinkWrite(h, q, size, frames) ==
    IF h \in {"PREPARED", "RUNNING", "PAUSED"}
    THEN (IF size - q <= 0 /\ frames > 0 THEN -11 ELSE Min(frames, size - q))
    ELSE IF h = "XRUN" THEN -32
    ELSE IF h = "SUSPENDED" THEN -86
    ELSE IF h = "DISCONNECTED" THEN -19
    ELSE -77

\* snd_pcm_status_get_avail: the free frames; after an underrun the count
\* runs past the buffer size
StatusAvail(h, q, size) ==
    IF h = "XRUN" THEN {size - q, size + 1024} ELSE {size - q}

\* snd_pcm_status_get_delay
StatusDelay(h, q) == IF h = "XRUN" THEN {q, -1024} ELSE {q}

TransientErrors == {"EPIPE", "EINTR", "ESTRPIPE"}
StatusErrors == {"OK", "EIO"} \cup TransientErrors
ResumeResults == {"OK", "EAGAIN", "ENOSYS", "EIO"}


(***************************************************************************)
(* Calling and returning from a public operation                           *)
(***************************************************************************)
\* the call of an operation that takes a buffer
CallWith(name, a, samples) ==
    /\ pc = "idle"
    /\ op' = name
    /\ arg' = a
    /\ buffer' = samples
    /\ sent' = 0
    /\ recovered' = FALSE
    /\ answers' = "none"
    /\ emitted' = FALSE
    /\ handled' = FALSE

\* the call
Call(name, a) ==
    /\ pc = "idle"
    /\ op' = name
    /\ arg' = a
    /\ buffer' = 0
    /\ sent' = 0
    /\ recovered' = FALSE
    /\ answers' = "none"
    /\ emitted' = FALSE
    /\ handled' = FALSE

\* the return: the locals go out of scope and the caller holds the result
Return(r) ==
    /\ pc' = "returned"
    /\ n' = 0
    /\ autoRecoverAttempted' = FALSE
    /\ err' = "none"
    /\ UNCHANGED <<card, dev>>
    /\ status' = StatusZero
    /\ pcmst' = "DISCONNECTED"
    /\ nStatus' = 0
    /\ ret' = r

\* the operation goes on at another position, its locals as they are
Goto(next) ==
    /\ pc' = next
    /\ UNCHANGED <<localVars, recVars, ret>>

\* the first step of an operation that takes more than one
Enter(next) ==
    /\ pc' = next
    /\ ret' = RetNone
    /\ UNCHANGED <<localVars, recVars>>

\* a call on an absent handle is undefined: the process dies in the library
Crash ==
    /\ pc' = "crashed"
    /\ ret' = RetNone
    /\ UNCHANGED <<localVars, recVars>>

\* how far the calls follow init; write(1024); start, or a reset, each
\* followed by currentState, with a sink that does nothing on its own
TrailAfter(name, a) ==
    CASE name = "reset" -> IF pcmHandle THEN "reset" ELSE "other"
      [] name = "write" ->
           IF trail = "init" /\ a = 1024 THEN "init.write" ELSE "other"
      [] name = "start" ->
           IF trail = "init.write" THEN "init.write.start" ELSE "other"
      [] name = "currentState" -> trail
      [] OTHER -> "other"

\* the caller has taken the result; the object waits for the next call
Collect ==
    /\ pc = "returned"
    /\ pc' = "idle"
    /\ op' = "none"
    /\ arg' = NoArg
    /\ buffer' = 0
    /\ sent' = 0
    /\ recovered' = FALSE
    /\ answers' = "none"
    /\ emitted' = FALSE
    /\ handled' = FALSE
    /\ ret' = RetNone
    /\ cmd' = "none"
    /\ trail' = IF op = "currentState" THEN "other" ELSE trail
    /\ UNCHANGED <<privVars, localVars, recVars, sinkVars, notifs, request>>

(***************************************************************************)
(* AlsaOutput::uninit and Private::reset                                   *)
(***************************************************************************)
\* Closed without started = false
ClosedKeepsStarted ==
    /\ UNCHANGED started
    /\ initialised' = FALSE
    /\ Return(RetNone)

\* started = false (Private::reset); initialised = false (uninit); and, in
\* init, return false
\* Closed as Private::reset alone leaves it, without the line of uninit
ClosedKeepsInitialised ==
    /\ started' = FALSE
    /\ UNCHANGED initialised
    /\ Return(RetNone)

Closed ==
    /\ started' = FALSE
    /\ initialised' = FALSE
    /\ Return(RetNone)

Uninit ==
    /\ Call("uninit", 0)
    /\ cmd' = "none"
    /\ trail' = "other"
    /\ IF pcmHandle
       THEN /\ Enter("un_drain")
            /\ UNCHANGED <<started, initialised>>
       ELSE Closed
    /\ UNCHANGED <<cfgVars, pcmHandle, sinkVars, notifs, request>>

\* snd_pcm_drain(pcmHandle.get())
UnDrain ==
    /\ pc = "un_drain"
    /\ cmd' = "drain"
    /\ hw' = SinkDrain(hw, hwQueued)
    /\ Goto("un_drop")
    /\ UNCHANGED <<privVars, callVars, hwQueued, hwBuffer, hwDevice, conns,
                   notifs, trail, request>>

\* UnDrop without the drop
UnDropSkipped ==
    /\ pc = "un_drop"
    /\ cmd' = "none"
    /\ Goto("un_close")
    /\ UNCHANGED <<privVars, callVars, sinkVars, notifs, trail, request>>

\* snd_pcm_drop(pcmHandle.get())
UnDrop ==
    /\ pc = "un_drop"
    /\ cmd' = "drop"
    /\ hw' = SinkDrop(hw, hwQueued).hw
    /\ hwQueued' = SinkDrop(hw, hwQueued).q
    /\ Goto("un_close")
    /\ UNCHANGED <<privVars, callVars, hwBuffer, hwDevice, conns, notifs, trail,
                   request>>

\* pcmHandle.reset(), and the rest of Private::reset and of uninit
UnClose ==
    /\ pc = "un_close"
    /\ cmd' = "close"
    /\ pcmHandle' = FALSE
    /\ hw' = "CLOSED" /\ hwQueued' = 0 /\ hwBuffer' = 0 /\ hwDevice' = "none"
    /\ conns' = conns - 1
    /\ notifs' = 0
    /\ Closed
    /\ UNCHANGED <<cfgVars, callVars, trail, request>>

(***************************************************************************)
(* AlsaOutput::init and Private::initAlsa                                  *)
(***************************************************************************)
InitSteps == <<"hw_params_any", "set_access", "find_format", "format_supported",
               "set_format", "set_rate", "set_channels", "get_buffer_size_max",
               "set_buffer_size", "set_period_size", "hw_params",
               "sw_params_current", "get_boundary", "set_silence_size",
               "set_silence_threshold", "set_start_threshold",
               "set_stop_threshold", "sw_params", "prepare">>

StepIndex(name) == CHOOSE i \in 1..Len(InitSteps) : InitSteps[i] = name

\* the steps the sink may refuse; the two format checks are decided by the data
SinkSteps == {i \in 1..Len(InitSteps) :
                 InitSteps[i] \notin {"find_format", "format_supported"}}

\* the first failing step of initAlsa after the open (0: none), given the
\* step the sink refuses (0: none)
FirstFailure(refused, fmt, profile) ==
    LET alsaFormat == findAlsaFormat(fmt)
        byData == IF alsaFormat = "SND_UNKNOWN" THEN StepIndex("find_format")
                  ELSE IF ~formatSupported(alsaFormat, profile)
                       THEN StepIndex("format_supported")
                       ELSE 0
    IN  IF refused = 0 THEN byData
        ELSE IF byData = 0 THEN refused
        ELSE Min(refused, byData)

\* InitFailed without the uninit(): init returns false and keeps what it has
InitFailedKeepsHandle(handle) ==
    /\ Return(RetNone)
    /\ UNCHANGED <<started, initialised>>

\* what init does when initAlsa has returned false with this handle
InitFailed(handle) ==
    IF handle
    THEN /\ Enter("un_drain")
         /\ UNCHANGED <<started, initialised>>
    ELSE Closed

\* p->format = format; snd_pcm_open(&rawHandle, device, ...)
InitCall(fmt, opened) ==
    /\ Call("init", 0)
    /\ format' = fmt
    /\ cmd' = "open"
    /\ trail' = "other"
    /\ IF opened
       THEN /\ conns' = conns + 1
            /\ hwDevice' = device
            /\ Enter("init_assign")
            /\ UNCHANGED <<started, initialised>>
       ELSE /\ UNCHANGED <<conns, hwDevice>>
            /\ InitFailed(pcmHandle)
    /\ UNCHANGED <<bufferSize, periodSize, pausable, volume, device, pcmHandle,
                   hw, hwQueued, hwBuffer, notifs, request>>

\* pcmHandle = {rawHandle, PcmHandleDeleter()}: the previous handle is closed
InitAssign ==
    /\ pc = "init_assign"
    /\ cmd' = IF pcmHandle THEN "close" ELSE "none"
    /\ conns' = IF pcmHandle THEN conns - 1 ELSE conns
    /\ pcmHandle' = TRUE
    /\ hw' = "OPEN" /\ hwQueued' = 0 /\ hwBuffer' = 0
    /\ notifs' = 0
    /\ Goto("init_hw")
    /\ UNCHANGED <<cfgVars, initialised, started, callVars, hwDevice, trail,
                   request>>

\* the negotiation of initAlsa, from snd_pcm_hw_params_any to snd_pcm_prepare,
\* and the rest of init
InitNegotiate(refused) ==
    /\ pc = "init_hw"
    /\ LET profile == HwProfile(hwDevice)
           f == FirstFailure(refused, format, profile)
           Passed(name) == f = 0 \/ f > StepIndex(name)
           clamped == Min(bufferSize, profile.maxBuffer)
       IN  /\ cmd' = "hw_params"
           /\ pausable' = IF Passed("hw_params_any") THEN profile.canPause
                          ELSE pausable
           /\ request' = IF Passed("get_buffer_size_max") THEN clamped ELSE 0
           /\ bufferSize' = IF Passed("set_buffer_size")
                            THEN Near(clamped, profile.buffers)
                            ELSE IF Passed("get_buffer_size_max") THEN clamped
                            ELSE bufferSize
           /\ periodSize' = IF Passed("set_period_size")
                            THEN Near(periodSize, profile.periods)
                            ELSE periodSize
           /\ hw' = IF Passed("hw_params") THEN "PREPARED" ELSE hw
           /\ hwBuffer' = IF Passed("hw_params") THEN bufferSize' ELSE hwBuffer
           /\ IF f = 0
              THEN /\ initialised' = TRUE
                   /\ trail' = "init"
                   /\ Return([RetNone EXCEPT !.ok = TRUE])
                   /\ UNCHANGED started
              ELSE /\ trail' = "other"
                   /\ InitFailed(TRUE)
    /\ UNCHANGED <<format, volume, device, pcmHandle, callVars, hwQueued,
                   hwDevice, conns, notifs>>

(***************************************************************************)
(* Private::recoverState and Private::attemptRecovery                      *)
(***************************************************************************)
\* recoverState with an open handle: snd_pcm_status_alloca, and the locals of
\* attemptRecovery before its loop
EnterRecovery ==
    /\ pc' = "rec_status"
    /\ n' = 0
    /\ autoRecoverAttempted' = FALSE
    /\ err' = "none"
    /\ UNCHANGED <<card, dev>>
    /\ status' = StatusZero
    /\ pcmst' = "DISCONNECTED"
    /\ nStatus' = 0
    /\ ret' = RetNone

\* Continue without the loop test: for(;;)
ContinueUnbounded ==
    /\ n' = n + 1
    /\ pc' = "rec_status"
    /\ recovered' = FALSE

\* continue: ++n and the loop test; return false after the last iteration
Continue ==
    /\ n' = n + 1
    /\ pc' = IF n + 1 < RecoveryAttempts THEN "rec_status" ELSE "rec_done"
    /\ recovered' = FALSE

\* the lost device reported to nobody
EmitNothing(base) ==
    /\ notifs' = base
    /\ UNCHANGED <<emitted, handled>>

\* QMetaObject::invokeMethod(self, [this]() { emit self->stateChanged(
\* State::Disconnected); }) with the default connection type: the functor
\* is called at once when the caller runs on the thread self lives in, and
\* is posted to that thread's event loop otherwise.  The count is that of
\* the running episode, base, which is 0 unless every query of the episode
\* has answered DISCONNECTED
EmitDisconnected(base) ==
    /\ notifs' = Min(base + 1, MaxNotifs)
    /\ emitted' = TRUE
    /\ \E onOwnerThread \in BOOLEAN : handled' = onOwnerThread

\* Dispatch that reports a running stream as recovered only when the first
\* query of the call finds it so
DispatchFirstOnly(st, base) ==
    IF st \in {"RUNNING", "PAUSED"}
    THEN /\ recovered' = (n = 0) /\ pc' = "rec_done"
         /\ notifs' = base /\ UNCHANGED <<n, emitted, handled>>
    ELSE IF st = "PREPARED"
    THEN IF ~started
         THEN /\ recovered' = TRUE /\ pc' = "rec_done"
              /\ notifs' = base /\ UNCHANGED <<n, emitted, handled>>
         ELSE /\ pc' = "rec_start"
              /\ notifs' = base /\ UNCHANGED <<n, recovered, emitted, handled>>
    ELSE IF st \in {"DRAINING", "XRUN"}
    THEN /\ pc' = "rec_prepare"
         /\ notifs' = base /\ UNCHANGED <<n, recovered, emitted, handled>>
    ELSE IF st = "SUSPENDED"
    THEN /\ pc' = "rec_resume"
         /\ notifs' = base /\ UNCHANGED <<n, recovered, emitted, handled>>
    ELSE /\ EmitDisconnected(base)
         /\ recovered' = FALSE /\ pc' = "rec_done" /\ UNCHANGED n

\* Dispatch that takes a prepared stream as recovered whatever started says
DispatchPreparedSucceeds(st, base) ==
    IF st \in {"RUNNING", "PAUSED"}
    THEN /\ recovered' = TRUE /\ pc' = "rec_done"
         /\ notifs' = base /\ UNCHANGED <<n, emitted, handled>>
    ELSE IF st = "PREPARED"
    THEN /\ recovered' = TRUE /\ pc' = "rec_done"
         /\ notifs' = base /\ UNCHANGED <<n, emitted, handled>>
    ELSE IF st \in {"DRAINING", "XRUN"}
    THEN /\ pc' = "rec_prepare"
         /\ notifs' = base /\ UNCHANGED <<n, recovered, emitted, handled>>
    ELSE IF st = "SUSPENDED"
    THEN /\ pc' = "rec_resume"
         /\ notifs' = base /\ UNCHANGED <<n, recovered, emitted, handled>>
    ELSE /\ EmitDisconnected(base)
         /\ recovered' = FALSE /\ pc' = "rec_done" /\ UNCHANGED n

\* the body of the loop after pcmst is known, up to the command it chooses
Dispatch(st, base) ==
    IF st \in {"RUNNING", "PAUSED"}
    THEN /\ recovered' = TRUE /\ pc' = "rec_done"
         /\ notifs' = base /\ UNCHANGED <<n, emitted, handled>>
    ELSE IF st = "PREPARED"
    THEN IF ~started
         THEN /\ recovered' = TRUE /\ pc' = "rec_done"
              /\ notifs' = base /\ UNCHANGED <<n, emitted, handled>>
         ELSE /\ pc' = "rec_start"
              /\ notifs' = base /\ UNCHANGED <<n, recovered, emitted, handled>>
    ELSE IF st \in {"DRAINING", "XRUN"}
    THEN /\ pc' = "rec_prepare"
         /\ notifs' = base /\ UNCHANGED <<n, recovered, emitted, handled>>
    ELSE IF st = "SUSPENDED"
    THEN /\ pc' = "rec_resume"
         /\ notifs' = base /\ UNCHANGED <<n, recovered, emitted, handled>>
    ELSE /\ EmitDisconnected(base)
         /\ recovered' = FALSE /\ pc' = "rec_done" /\ UNCHANGED n

\* err = snd_pcm_status(handle, status) and the branch on its answer; s is
\* the state the sink is in when it is asked
RecStatus(e, s, avail, delay) ==
    /\ pc = "rec_status"
    /\ cmd' = "status"
    /\ err' = e
    /\ UNCHANGED <<card, dev>>
    /\ nStatus' = nStatus + 1
    /\ hw' = s
    /\ trail' = IF e = "OK" /\ s = hw THEN trail ELSE "other"
    /\ answers' = IF e = "OK" /\ nStatus = 0 /\ s = "XRUN" THEN "xrun"
                  ELSE IF e = "OK" /\ answers = "xrun" /\ s = "RUNNING"
                       THEN "xrun.running"
                       ELSE "other"
    /\ LET base == IF e = "OK" /\ s = "DISCONNECTED" THEN notifs ELSE 0
       IN  IF e \in TransientErrors
           THEN /\ UNCHANGED status
                /\ IF ~autoRecoverAttempted
                   THEN /\ autoRecoverAttempted' = TRUE
                        /\ pc' = "rec_recover"
                        /\ notifs' = base
                        /\ UNCHANGED <<n, pcmst, recovered, emitted, handled>>
                   ELSE /\ pcmst' = "XRUN"
                        /\ Dispatch("XRUN", base)
                        /\ UNCHANGED autoRecoverAttempted
           ELSE /\ status' = IF e = "OK"
                             THEN [state |-> s, avail |-> avail, delay |-> delay]
                             ELSE status
                /\ pcmst' = status'.state
                /\ Dispatch(status'.state, base)
                /\ UNCHANGED autoRecoverAttempted
    /\ UNCHANGED <<privVars, op, arg, buffer, sent, ret, hwQueued, hwBuffer,
                   hwDevice, conns,
                   request>>

\* RecRecover that forgets the attempt it has just made
RecRecoverForgets(prepared) ==
    /\ pc = "rec_recover"
    /\ cmd' = "recover"
    /\ err' = "none"
    /\ UNCHANGED <<card, dev>>
    /\ autoRecoverAttempted' = FALSE
    /\ IF prepared
       THEN /\ hw' = SinkPrepare(hw, hwQueued).hw
            /\ hwQueued' = SinkPrepare(hw, hwQueued).q
       ELSE UNCHANGED <<hw, hwQueued>>
    /\ Continue
    /\ UNCHANGED <<privVars, op, arg, buffer, sent, ret, status,
                   recVars, hwBuffer, hwDevice, conns, ghostVars>>

\* snd_pcm_recover(handle, err, 1); continue
RecRecover(prepared) ==
    /\ pc = "rec_recover"
    /\ cmd' = "recover"
    /\ err' = "none"
    /\ UNCHANGED <<card, dev>>
    /\ IF prepared
       THEN /\ hw' = SinkPrepare(hw, hwQueued).hw
            /\ hwQueued' = SinkPrepare(hw, hwQueued).q
       ELSE UNCHANGED <<hw, hwQueued>>
    /\ Continue
    /\ UNCHANGED <<privVars, op, arg, buffer, sent, ret, autoRecoverAttempted,
                   status,
                   recVars, hwBuffer, hwDevice, conns, ghostVars>>

\* RecStart that gives up after the start instead of asking again
RecStartGivesUp ==
    /\ pc = "rec_start"
    /\ cmd' = "start"
    /\ err' = "none"
    /\ UNCHANGED <<card, dev>>
    /\ hw' = SinkStart(hw)
    /\ n' = n + 1
    /\ pc' = "rec_done"
    /\ recovered' = FALSE
    /\ UNCHANGED <<privVars, op, arg, buffer, sent, ret, autoRecoverAttempted,
                   status,
                   recVars, hwQueued, hwBuffer, hwDevice, conns, ghostVars>>

\* snd_pcm_start(handle); continue
RecStart ==
    /\ pc = "rec_start"
    /\ cmd' = "start"
    /\ err' = "none"
    /\ UNCHANGED <<card, dev>>
    /\ hw' = SinkStart(hw)
    /\ Continue
    /\ UNCHANGED <<privVars, op, arg, buffer, sent, ret, autoRecoverAttempted,
                   status,
                   recVars, hwQueued, hwBuffer, hwDevice, conns, ghostVars>>

\* checkError(snd_pcm_prepare(handle)); continue
RecPrepare ==
    /\ pc \in {"rec_prepare", "rec_resume_prepare"}
    /\ cmd' = "prepare"
    /\ err' = "none"
    /\ UNCHANGED <<card, dev>>
    /\ hw' = SinkPrepare(hw, hwQueued).hw
    /\ hwQueued' = SinkPrepare(hw, hwQueued).q
    /\ Continue
    /\ UNCHANGED <<privVars, op, arg, buffer, sent, ret, autoRecoverAttempted,
                   status,
                   recVars, hwBuffer, hwDevice, conns, ghostVars>>

\* RecResume that falls back to prepare on every failed resume
RecResumeAlwaysPrepares(r) ==
    /\ pc = "rec_resume"
    /\ r = "OK" => hw = "SUSPENDED"
    /\ cmd' = "resume"
    /\ err' = r
    /\ UNCHANGED <<card, dev>>
    /\ hw' = IF r = "OK" THEN "RUNNING" ELSE hw
    /\ IF r # "OK"
       THEN /\ pc' = "rec_resume_prepare"
            /\ UNCHANGED <<n, recovered>>
       ELSE Continue
    /\ UNCHANGED <<privVars, op, arg, buffer, sent, ret, autoRecoverAttempted,
                   status, recVars,
                   hwQueued, hwBuffer, hwDevice, conns, ghostVars>>

\* err = snd_pcm_resume(handle) and the branch on its result
RecResume(r) ==
    /\ pc = "rec_resume"
    /\ r = "OK" => hw = "SUSPENDED"
    /\ cmd' = "resume"
    /\ err' = r
    /\ UNCHANGED <<card, dev>>
    /\ hw' = IF r = "OK" THEN "RUNNING" ELSE hw
    /\ IF r = "ENOSYS"
       THEN /\ pc' = "rec_resume_prepare"
            /\ UNCHANGED <<n, recovered>>
       ELSE Continue
    /\ UNCHANGED <<privVars, op, arg, buffer, sent, ret, autoRecoverAttempted,
                   status, recVars,
                   hwQueued, hwBuffer, hwDevice, conns, ghostVars>>

\* the OutputState recoverState fills in from the status; every count of
\* the model is below 2^31, where the casts to int change nothing, and the
\* delay is kept in frames (the code divides it by the sample rate)
OutputStateOf(st, size, period) ==
    LET free1 == Clamp(st.avail, 0, size)
        free2 == (free1 \div period) * period
    IN  [delay |-> Max(st.delay, 0),
         freeSamples |-> free2,
         queuedSamples |-> size - free2]

\* RecDone where write goes on to the transfer whatever recovery has said
RecDoneAlwaysWrites ==
    /\ pc = "rec_done"
    /\ cmd' = "none"
    /\ CASE op = "currentState" ->
              Return([RetNone EXCEPT
                        !.ok = recovered,
                        !.state = OutputStateOf(status, bufferSize, periodSize)])
         [] op = "write" -> Goto("write_io")
         [] op = "setPaused" -> Goto("pause_state")
         [] OTHER -> Return([RetNone EXCEPT !.ok = recovered])
    /\ UNCHANGED <<privVars, callVars, sinkVars, notifs, trail, request>>

\* the rest of recoverState and the return into the operation that called it
RecDone ==
    /\ pc = "rec_done"
    /\ cmd' = "none"
    /\ CASE op = "currentState" ->
              Return([RetNone EXCEPT
                        !.ok = recovered,
                        !.state = OutputStateOf(status, bufferSize, periodSize)])
         [] op = "write" ->
              IF recovered THEN Goto("write_io") ELSE Return(RetNone)
         [] op = "setPaused" -> Goto("pause_state")
         [] OTHER -> Return([RetNone EXCEPT !.ok = recovered])
    /\ UNCHANGED <<privVars, callVars, sinkVars, notifs, trail, request>>

(***************************************************************************)
(* AlsaOutput::reset, start, currentState, write, setPaused, setVolume,    *)
(* setDevice                                                                *)
(***************************************************************************)
\* reset() that also puts the preferred sizes back
ResetRestoresSizes ==
    /\ Call("reset", 0)
    /\ trail' = TrailAfter("reset", 0)
    /\ bufferSize' = PreferredBufferSize
    /\ periodSize' = DefaultPeriodSize
    /\ IF pcmHandle
       THEN /\ cmd' = "drop"
            /\ hw' = SinkDrop(hw, hwQueued).hw
            /\ hwQueued' = SinkDrop(hw, hwQueued).q
            /\ Enter("reset_prepare")
       ELSE /\ cmd' = "null:drop"
            /\ UNCHANGED <<hw, hwQueued>>
            /\ \/ Crash
               \/ Enter("reset_prepare")
    /\ UNCHANGED <<format, pausable, volume, device, initialised, pcmHandle,
                   started, hwBuffer, hwDevice, conns, notifs, request>>

\* checkError(snd_pcm_drop(p->pcmHandle.get()), ...)
Reset ==
    /\ Call("reset", 0)
    /\ trail' = TrailAfter("reset", 0)
    /\ IF pcmHandle
       THEN /\ cmd' = "drop"
            /\ hw' = SinkDrop(hw, hwQueued).hw
            /\ hwQueued' = SinkDrop(hw, hwQueued).q
            /\ Enter("reset_prepare")
       ELSE /\ cmd' = "null:drop"
            /\ UNCHANGED <<hw, hwQueued>>
            /\ \/ Crash
               \/ Enter("reset_prepare")
    /\ UNCHANGED <<privVars, hwBuffer, hwDevice, conns, notifs, request>>

\* checkError(snd_pcm_prepare(p->pcmHandle.get()), ...); p->started = false;
\* p->recoverState()
ResetPrepare ==
    /\ pc = "reset_prepare"
    /\ IF pcmHandle
       THEN /\ cmd' = "prepare"
            /\ hw' = SinkPrepare(hw, hwQueued).hw
            /\ hwQueued' = SinkPrepare(hw, hwQueued).q
            /\ started' = FALSE
            /\ EnterRecovery
       ELSE /\ cmd' = "null:prepare"
            /\ UNCHANGED <<hw, hwQueued>>
            /\ \/ Crash /\ UNCHANGED started
               \/ started' = FALSE /\ Return(RetNone)
    /\ UNCHANGED <<cfgVars, initialised, pcmHandle, callVars, hwBuffer, hwDevice,
                   conns, notifs, trail, request>>

\* p->started = true; snd_pcm_start(p->pcmHandle.get())
Start ==
    /\ Call("start", 0)
    /\ trail' = TrailAfter("start", 0)
    /\ started' = TRUE
    /\ IF pcmHandle
       THEN /\ cmd' = "start"
            /\ hw' = SinkStart(hw)
            /\ Return(RetNone)
       ELSE /\ cmd' = "null:start"
            /\ UNCHANGED hw
            /\ \/ Crash
               \/ Return(RetNone)
    /\ UNCHANGED <<cfgVars, initialised, pcmHandle, hwQueued, hwBuffer, hwDevice,
                   conns, notifs, request>>

\* OutputState state; p->recoverState(&state); return state
CurrentState ==
    /\ Call("currentState", 0)
    /\ cmd' = "none"
    /\ trail' = TrailAfter("currentState", 0)
    /\ IF pcmHandle THEN EnterRecovery ELSE Return(RetNone)
    /\ UNCHANGED <<privVars, sinkVars, notifs, request>>

\* if(!p->pcmHandle || !p->recoverState()) return 0
Write(frames, samples) ==
    /\ CallWith("write", frames, samples)
    /\ cmd' = "none"
    /\ trail' = TrailAfter("write", frames)
    /\ IF pcmHandle THEN EnterRecovery ELSE Return(RetNone)
    /\ UNCHANGED <<privVars, sinkVars, notifs, request>>

\* WriteResult without the checkError test
WriteResultRaw(e) == e

\* if(checkError(err, ...)) return 0; return static_cast<int>(err)
WriteResult(e) == IF e < 0 THEN 0 ELSE e

\* AudioBuffer::scale: every sample multiplied by the volume
scale(samples, v) == samples * v

\* WriteIo that scales the caller's buffer in place
WriteIoInPlace(fault) ==
    /\ pc = "write_io"
    /\ cmd' = "writei"
    /\ buffer' = scale(buffer, volume)
    /\ sent' = buffer'
    /\ LET e == IF fault THEN -5 ELSE SinkWrite(hw, hwQueued, hwBuffer, arg)
       IN  /\ hwQueued' = IF e > 0 THEN hwQueued + e ELSE hwQueued
           /\ Return([RetNone EXCEPT !.ok = TRUE, !.frames = WriteResult(e)])
    /\ trail' = IF fault THEN "other" ELSE trail
    /\ answers' = IF fault THEN "other" ELSE answers
    /\ UNCHANGED <<privVars, op, arg, recovered, emitted, handled, hw, hwBuffer,
                   hwDevice, conns, notifs, request>>

\* AudioBuffer adjustedBuff{buffer}; adjustedBuff.scale(p->volume);
\* err = snd_pcm_writei(handle, adjustedBuff data, frameCount) and the
\* return of write; fault: the transfer fails with -EIO
WriteIo(fault) ==
    /\ pc = "write_io"
    /\ cmd' = "writei"
    /\ LET adjustedBuff == scale(buffer, volume)
       IN  sent' = adjustedBuff
    /\ UNCHANGED buffer
    /\ LET e == IF fault THEN -5 ELSE SinkWrite(hw, hwQueued, hwBuffer, arg)
       IN  /\ hwQueued' = IF e > 0 THEN hwQueued + e ELSE hwQueued
           /\ Return([RetNone EXCEPT !.ok = TRUE, !.frames = WriteResult(e)])
    /\ trail' = IF fault THEN "other" ELSE trail
    /\ answers' = IF fault THEN "other" ELSE answers
    /\ UNCHANGED <<privVars, op, arg, recovered, emitted, handled, hw, hwBuffer,
                   hwDevice, conns, notifs, request>>

\* SetPaused without the test of p->pausable
SetPausedIgnoresPausable(pause) ==
    /\ Call("setPaused", pause)
    /\ cmd' = "none"
    /\ trail' = "other"
    /\ IF pcmHandle THEN EnterRecovery ELSE Enter("pause_state")
    /\ UNCHANGED <<privVars, sinkVars, notifs, request>>

\* if(!p->pausable) return; p->recoverState()
SetPaused(pause) ==
    /\ Call("setPaused", pause)
    /\ cmd' = "none"
    /\ trail' = "other"
    /\ IF ~pausable THEN Return(RetNone)
       ELSE IF pcmHandle THEN EnterRecovery
       ELSE Enter("pause_state")
    /\ UNCHANGED <<privVars, sinkVars, notifs, request>>

\* PauseState that goes on to the pause command whatever the state is
PauseStateAlwaysPauses(s) ==
    /\ pc = "pause_state"
    /\ IF pcmHandle
       THEN /\ s \in PcmStates
            /\ cmd' = "state"
            /\ hw' = s
            /\ notifs' = IF s = "DISCONNECTED" THEN notifs ELSE 0
            /\ Goto("pause_cmd")
       ELSE /\ s = hw
            /\ cmd' = "null:state"
            /\ UNCHANGED <<hw, notifs>>
            /\ \/ Crash
               \/ Return(RetNone)
    /\ UNCHANGED <<privVars, callVars, hwQueued, hwBuffer, hwDevice, conns,
                   trail, request>>

\* const auto state = snd_pcm_state(p->pcmHandle.get()) and the two tests;
\* s is the state the sink is in when it is asked
PauseState(s) ==
    /\ pc = "pause_state"
    /\ IF pcmHandle
       THEN /\ s \in PcmStates
            /\ cmd' = "state"
            /\ hw' = s
            /\ notifs' = IF s = "DISCONNECTED" THEN notifs ELSE 0
            /\ IF (s = "RUNNING" /\ arg = 1) \/ (s = "PAUSED" /\ arg = 0)
               THEN Goto("pause_cmd")
               ELSE Return(RetNone)
       ELSE /\ s = hw
            /\ cmd' = "null:state"
            /\ UNCHANGED <<hw, notifs>>
            /\ \/ Crash
               \/ Return(RetNone)
    /\ UNCHANGED <<privVars, callVars, hwQueued, hwBuffer, hwDevice, conns,
                   trail, request>>

\* checkError(snd_pcm_pause(p->pcmHandle.get(), pause), ...)
PauseCmd ==
    /\ pc = "pause_cmd"
    /\ cmd' = IF arg = 1 THEN "pause" ELSE "unpause"
    /\ hw' = SinkPause(hw, arg)
    /\ Return(RetNone)
    /\ UNCHANGED <<privVars, callVars, hwQueued, hwBuffer, hwDevice, conns,
                   notifs, trail, request>>

\* p->volume = volume
SetVolume(v) ==
    /\ Call("setVolume", 0)
    /\ cmd' = "none"
    /\ trail' = "other"
    /\ volume' = v
    /\ Return(RetNone)
    /\ UNCHANGED <<format, bufferSize, periodSize, pausable, device, initialised,
                   pcmHandle, started, sinkVars, notifs, request>>

\* SetDevice without the test of device.isEmpty()
SetDeviceAcceptsEmpty(name) ==
    /\ Call("setDevice", name)
    /\ cmd' = "none"
    /\ trail' = "other"
    /\ device' = name
    /\ Return(RetNone)
    /\ UNCHANGED <<format, bufferSize, periodSize, pausable, volume, initialised,
                   pcmHandle, started, sinkVars, notifs, request>>

\* if(!device.isEmpty()) p->device = device
SetDevice(name) ==
    /\ Call("setDevice", name)
    /\ cmd' = "none"
    /\ trail' = "other"
    /\ device' = IF name # "" THEN name ELSE device
    /\ Return(RetNone)
    /\ UNCHANGED <<format, bufferSize, periodSize, pausable, volume, initialised,
                   pcmHandle, started, sinkVars, notifs, request>>

(***************************************************************************)
(* AlsaOutput::getAllDevices, getPcmDevices and getHardwareDevices         *)
(***************************************************************************)
\* a hint attribute that snd_device_name_get_hint does not find
Null == "(null)"

\* the hints snd_device_name_hint may list: NAME, DESC and IOID of each
HintPool ==
    {[name |-> "default", desc |-> "Default", io |-> Null],
     [name |-> "default", desc |-> Null, io |-> "Output"],
     [name |-> "pulse", desc |-> "Pulse", io |-> "Output"],
     [name |-> "hw:0,0", desc |-> "Card", io |-> Null],
     [name |-> "mic", desc |-> "Mic", io |-> "Input"],
     [name |-> Null, desc |-> "Anon", io |-> "Output"]}

\* the longest hint list handed to the enumeration
MaxHints == 3

HintLists == UNION {[1..k -> HintPool] : k \in 0..MaxHints}

\* the sound cards snd_card_next walks through, in order; of each: whether
\* snd_ctl_open and snd_ctl_card_info succeed and, for each of its PCM
\* devices in order, whether snd_ctl_pcm_info succeeds
CardLists ==
    {<<>>,
     <<[open |-> TRUE, info |-> TRUE, devs |-> <<TRUE>>]>>,
     <<[open |-> TRUE, info |-> TRUE, devs |-> <<FALSE, TRUE>>]>>,
     <<[open |-> FALSE, info |-> TRUE, devs |-> <<TRUE>>],
       [open |-> TRUE, info |-> TRUE, devs |-> <<TRUE>>]>>,
     <<[open |-> TRUE, info |-> FALSE, devs |-> <<TRUE>>]>>}

\* if(!name || !desc || (io && strcmp(io.str, "Output") != 0)) continue
HintListed(h) ==
    h.name # Null /\ h.desc # Null /\ (h.io = Null \/ h.io = "Output")

\* the loop of getPcmDevices from hint n on
RECURSIVE PcmLoop(_, _, _)
PcmLoop(devices, hints, i) ==
    IF i > Len(hints) THEN devices
    ELSE LET h == hints[i]
         IN  IF ~HintListed(h) THEN PcmLoop(devices, hints, i + 1)
             ELSE IF h.name = "default"
             THEN PcmLoop(<<[name |-> h.name, desc |-> h.desc]>> \o devices,
                          hints, i + 1)
             ELSE PcmLoop(Append(devices,
                                 [name |-> h.name,
                                  desc |-> h.name \o " - " \o h.desc]),
                          hints, i + 1)

getPcmDevices(devices, hints) == PcmLoop(devices, hints, 1)

\* QStringLiteral("hw:%1,%2").arg(card).arg(dev)
HwName(c, d) == "hw:" \o ToString(c) \o "," \o ToString(d)

\* the inner loop of getHardwareDevices over the devices of one card, for
\* device lists on which snd_ctl_pcm_next_device succeeds
RECURSIVE DevLoop(_, _, _, _)
DevLoop(devices, c, devs, j) ==
    IF j > Len(devs) THEN devices
    ELSE IF ~devs[j] THEN DevLoop(devices, c, devs, j + 1)
    ELSE DevLoop(Append(devices,
                        [name |-> HwName(c, j - 1),
                         desc |-> HwName(c, j - 1) \o " - card pcm"]),
                 c, devs, j + 1)

\* the outer loop of getHardwareDevices over the cards
RECURSIVE CardLoop(_, _, _)
CardLoop(devices, cards, i) ==
    IF i > Len(cards) THEN devices
    ELSE IF ~cards[i].open \/ ~cards[i].info
         THEN CardLoop(devices, cards, i + 1)
         ELSE CardLoop(DevLoop(devices, i - 1, cards[i].devs, 1), cards, i + 1)

getHardwareDevices(devices, cards) == CardLoop(devices, cards, 1)

\* getAllDevices with the two enumerations in the other order
getAllDevicesHardwareFirst(hints, cards) ==
    getPcmDevices(getHardwareDevices(NoDevices, cards), hints)

\* OutputDevices devices; getPcmDevices(devices);
\* getHardwareDevices(devices); return devices
getAllDevices(hints, cards) ==
    getHardwareDevices(getPcmDevices(NoDevices, hints), cards)

\* GetAllDevices that also clears the started flag
GetAllDevicesClearsStarted(hints, cards) ==
    /\ Call("getAllDevices", [hints |-> hints, cards |-> cards])
    /\ cmd' = "none"
    /\ trail' = "other"
    /\ started' = FALSE
    /\ Return([RetNone EXCEPT !.devices = getAllDevices(hints, cards)])
    /\ UNCHANGED <<cfgVars, initialised, pcmHandle, sinkVars, notifs, request>>

GetAllDevices(hints, cards) ==
    /\ Call("getAllDevices", [hints |-> hints, cards |-> cards])
    /\ cmd' = "none"
    /\ trail' = "other"
    /\ Return([RetNone EXCEPT !.devices = getAllDevices(hints, cards)])
    /\ UNCHANGED <<privVars, sinkVars, notifs, request>>

\* the enumeration inputs tried in every state of the device
SmallHintLists == {hints \in HintLists : Len(hints) = 0}
SmallCardLists == {cards \in CardLists :
                      Len(cards) = 1 /\ cards[1].open /\ cards[1].info
                      /\ Len(cards[1].devs) = 1}

(***************************************************************************)
(* setVolume and setDevice called from a second thread while an operation  *)
(* of the delivery thread is under way.  The two fields are plain members, *)
(* written and read without a lock or an atomic                            *)
(***************************************************************************)
\* the positions inside an operation
Running == pc \notin {"idle", "returned", "crashed"}

\* p->volume = volume from the second thread, between two steps of the
\* running operation.  The value is a double; a reader sees the old or the
\* new one
SetVolumeFromOtherThread(v) ==
    /\ Running
    /\ volume' = v
    /\ trail' = "other"
    /\ UNCHANGED <<format, bufferSize, periodSize, pausable, device, initialised,
                   pcmHandle, started, ctlVars, sinkVars, cmd, nStatus, notifs,
                   request, answers, emitted, handled>>

\* if(!device.isEmpty()) p->device = device from the second thread, between
\* two steps of the running operation
SetDeviceFromOtherThread(name) ==
    /\ Running
    /\ device' = IF name # "" THEN name ELSE device
    /\ trail' = "other"
    /\ UNCHANGED <<format, bufferSize, periodSize, pausable, volume, initialised,
                   pcmHandle, started, ctlVars, sinkVars, cmd, nStatus, notifs,
                   request, answers, emitted, handled>>

\* init on the delivery thread reads p->device for snd_pcm_open while the
\* second thread assigns it: a data race on a QString, whose assignment
\* swaps and releases the shared string data.  The reader gets the old name
\* or the new one, or reads released memory and the process dies
InitCallDuringSetDevice(fmt, opened, name) ==
    /\ Call("init", 0)
    /\ name # "" /\ name # device
    /\ device' = name
    /\ format' = fmt
    /\ cmd' = "open"
    /\ trail' = "other"
    /\ \/ /\ Crash
          /\ UNCHANGED <<conns, hwDevice, started, initialised>>
       \/ \E read \in {device, name} :
             IF opened
             THEN /\ conns' = conns + 1
                  /\ hwDevice' = read
                  /\ Enter("init_assign")
                  /\ UNCHANGED <<started, initialised>>
             ELSE /\ UNCHANGED <<conns, hwDevice>>
                  /\ InitFailed(pcmHandle)
    /\ UNCHANGED <<bufferSize, periodSize, pausable, volume, pcmHandle,
                   hw, hwQueued, hwBuffer, notifs, request>>

(***************************************************************************)
(* getAllDevices step by step, on a host where a card's next-device query  *)
(* may fail                                                                 *)
(***************************************************************************)
\* the hint lists handed to the walk
WalkHintLists == {hints \in HintLists : Len(hints) <= 1}

\* which card, if any, answers snd_ctl_pcm_next_device with an error: its
\* position in the card list, 0 for none.  The fault is one of the host: it
\* stays for as long as the enumeration runs
Faulty(cards) == 0..Len(cards)

\* OutputDevices devices; getPcmDevices(devices); and the locals of
\* getHardwareDevices before its loop
WalkCall(hints, cards, faulty) ==
    /\ Call("getAllDevices",
            [hints |-> hints, cards |-> cards, faulty |-> faulty])
    /\ cmd' = "none"
    /\ trail' = "other"
    /\ pc' = "hw_card"
    /\ card' = -1 /\ dev' = -1
    /\ ret' = [RetNone EXCEPT !.devices = getPcmDevices(NoDevices, hints)]
    /\ UNCHANGED <<privVars, n, autoRecoverAttempted, err, status, recVars,
                   sinkVars, notifs, request>>

\* one turn of the outer loop: snd_card_next, snd_ctl_open,
\* snd_ctl_card_info, and int dev{-1}
WalkCard ==
    /\ pc = "hw_card"
    /\ cmd' = "card_next"
    /\ IF card + 1 >= Len(arg.cards)
       THEN /\ Return(ret)
            /\ UNCHANGED <<card, dev>>
       ELSE /\ card' = card + 1
            /\ dev' = -1
            /\ pc' = IF arg.cards[card + 2].open /\ arg.cards[card + 2].info
                     THEN "hw_dev" ELSE "hw_card"
            /\ UNCHANGED <<n, autoRecoverAttempted, err, status, recVars, ret>>
    /\ UNCHANGED <<privVars, callVars, sinkVars, notifs, trail, request>>

\* one turn of the inner loop: snd_ctl_pcm_next_device, which leaves dev as
\* it is when it fails, then snd_ctl_pcm_info and devices.emplace_back
WalkDevice ==
    /\ pc = "hw_dev"
    /\ cmd' = "pcm_next_device"
    /\ LET devs == arg.cards[card + 1].devs
       IN  IF arg.faulty = card + 1
           THEN UNCHANGED <<pc, dev, ret>>
           ELSE IF dev + 1 >= Len(devs)
           THEN /\ dev' = -1
                /\ pc' = "hw_card"
                /\ UNCHANGED ret
           ELSE /\ dev' = dev + 1
                /\ pc' = "hw_dev"
                /\ ret' = IF devs[dev + 2]
                          THEN [ret EXCEPT !.devices =
                                   Append(@, [name |-> HwName(card, dev + 1),
                                              desc |-> HwName(card, dev + 1)
                                                       \o " - card pcm"])]
                          ELSE ret
    /\ UNCHANGED <<privVars, callVars, card, n, autoRecoverAttempted, err,
                   status, recVars, sinkVars, notifs, trail, request>>

WalkNext ==
    \/ \E hints \in WalkHintLists, cards \in CardLists :
          \E faulty \in Faulty(cards) : WalkCall(hints, cards, faulty)
    \/ WalkCard
    \/ WalkDevice
    \/ Collect

\* where the walk is
walkVars == <<pc, card, dev>>

\* the thread that has entered getAllDevices keeps running: it takes the next
\* turn of its loops whenever there is one that gets it anywhere
WalkSpec == Init /\ [][WalkNext]_vars /\ WF_walkVars(WalkCard \/ WalkDevice)

(***************************************************************************)
(* The hardware plays queued frames while the stream runs                  *)
(***************************************************************************)
HwConsume(c) ==
    /\ hw = "RUNNING"
    /\ pc \in {"idle", "write_io"}
    /\ hwQueued > 0
    /\ hwQueued' = Max(hwQueued - c, 0)
    /\ trail' = "other"
    /\ UNCHANGED <<privVars, ctlVars, hw, hwBuffer, hwDevice, conns, cmd, nStatus,
                   notifs, request, answers, emitted, handled>>

Next ==
    \/ Collect
    \/ \E fmt \in InitFormats, opened \in BOOLEAN : InitCall(fmt, opened)
    \/ InitAssign
    \/ \E refused \in SinkSteps \cup {0} : InitNegotiate(refused)
    \/ Uninit
    \/ UnDrain
    \/ UnDrop
    \/ UnClose
    \/ Reset
    \/ ResetPrepare
    \/ Start
    \/ CurrentState
    \/ \E frames \in FrameCounts, samples \in Samples : Write(frames, samples)
    \/ \E fault \in BOOLEAN : WriteIo(fault)
    \/ \E pause \in {0, 1} : SetPaused(pause)
    \/ \E s \in PcmStates \cup {"CLOSED"} : PauseState(s)
    \/ PauseCmd
    \/ \E v \in Volumes : SetVolume(v)
    \/ \E name \in DeviceNames \cup {""} : SetDevice(name)
    \/ \E hints \in SmallHintLists, cards \in SmallCardLists :
          GetAllDevices(hints, cards)
    \/ \E e \in StatusErrors, s \in PcmStates :
          \E avail \in StatusAvail(s, hwQueued, hwBuffer),
             delay \in StatusDelay(s, hwQueued) :
              /\ e # "OK" => s = hw
              /\ (avail = hwBuffer - hwQueued) <=> (delay = hwQueued)
              /\ RecStatus(e, s, avail, delay)
    \/ \E prepared \in BOOLEAN : RecRecover(prepared)
    \/ RecStart
    \/ RecPrepare
    \/ \E r \in ResumeResults : RecResume(r)
    \/ RecDone
    \/ \E c \in PlayChunk : HwConsume(c)

Spec == Init /\ [][Next]_vars

\* init and write on the delivery thread, with a second thread that calls
\* setVolume and setDevice at any moment
RaceNext ==
    \/ Collect
    \/ \E fmt \in InitFormats, opened \in BOOLEAN : InitCall(fmt, opened)
    \/ InitAssign
    \/ \E refused \in SinkSteps \cup {0} : InitNegotiate(refused)
    \/ UnDrain
    \/ UnDrop
    \/ UnClose
    \/ \E frames \in FrameCounts, samples \in Samples : Write(frames, samples)
    \/ \E fault \in BOOLEAN : WriteIo(fault)
    \/ \E s \in PcmStates :
          \E avail \in StatusAvail(s, hwQueued, hwBuffer),
             delay \in StatusDelay(s, hwQueued) :
              /\ (avail = hwBuffer - hwQueued) <=> (delay = hwQueued)
              /\ RecStatus("OK", s, avail, delay)
    \/ RecPrepare
    \/ \E r \in ResumeResults : RecResume(r)
    \/ RecDone
    \/ \E v \in Volumes : SetVolume(v)
    \/ \E name \in DeviceNames \cup {""} : SetDevice(name)
    \/ \E v \in Volumes : SetVolumeFromOtherThread(v)
    \/ \E name \in DeviceNames \cup {""} : SetDeviceFromOtherThread(name)
    \/ \E fmt \in InitFormats, opened \in BOOLEAN, name \in DeviceNames :
          InitCallDuringSetDevice(fmt, opened, name)

RaceSpec == Init /\ [][RaceNext]_vars

\* the enumeration on its own: it neither needs nor changes the connection
EnumNext ==
    \/ \E hints \in HintLists, cards \in CardLists : GetAllDevices(hints, cards)
    \/ Collect

EnumSpec == Init /\ [][EnumNext]_vars

(***************************************************************************)
(* Properties                                                               *)
(***************************************************************************)
Returned(name) == pc = "returned" /\ op = name

\* C1: whenever init returns false, no device handle is held, initialised()
\* is false and no connection to the sink is left open, whichever step of
\* initAlsa failed and whether or not a handle was open before the call
C1_FailedInitLeavesDeviceClosed ==
    (Returned("init") /\ ~ret.ok) =>
        (~pcmHandle /\ ~initialised /\ hw = "CLOSED" /\ conns = 0)

\* a failed init that had a handle to close, after the buffer size request
C1_Witness_FailedInitAfterOpen ==
    Returned("init") /\ ~ret.ok /\ cmd = "close" /\ request > 0 /\ ~pcmHandle

\* C2: while the sink answers DISCONNECTED to every query, every write
\* returns 0 and one Disconnected notification is emitted in total, however
\* many calls are made
C2_OneNotificationPerEpisode ==
    /\ notifs <= 1
    /\ (Returned("write") /\ notifs > 0) => ret.frames = 0

\* C3: a recovery call asks the hardware for its status at most five times,
\* whatever the hardware answers, and reports failure when the five
\* iterations are used up
C3_RecoveryBounded ==
    /\ nStatus <= RecoveryAttempts
    /\ n <= RecoveryAttempts
    /\ (pc = "rec_done" /\ n = RecoveryAttempts) => ~recovered

\* a recovery call that has used all its iterations
C3_Witness_RecoveryExhausted ==
    pc = "rec_done" /\ n = RecoveryAttempts /\ nStatus = RecoveryAttempts

\* C4: write returns a count between 0 and the frame count of the buffer; a
\* transfer the sink refuses returns 0; without an open handle write
\* returns 0
C4_WriteCountInRange ==
    Returned("write") =>
        /\ 0 <= ret.frames /\ ret.frames <= arg
        /\ ~pcmHandle => ret.frames = 0
        /\ (cmd = "writei" /\ hw \notin {"PREPARED", "RUNNING", "PAUSED"})
               => ret.frames = 0
        /\ (cmd = "writei" /\ hwQueued = hwBuffer /\ ret.frames = 0 /\ arg > 0)
               => ret.ok

\* a transfer of 1024 frames that the hardware has refused, returned as 0
C4_Witness_RefusedTransfer ==
    Returned("write") /\ cmd = "writei" /\ arg = 1024 /\ ret.frames = 0
    /\ pcmHandle

\* C5: write transfers only after recovery has succeeded; when recovery
\* reports failure write returns 0, issues no transfer and leaves the frames
\* queued in the sink as they are
C5_NoTransferWithoutRecovery ==
    [][/\ (pc = "rec_done" /\ op = "write" /\ ~recovered) =>
              (pc' = "returned" /\ ret'.frames = 0 /\ hwQueued' = hwQueued
               /\ cmd' # "writei")
       /\ cmd' = "writei" => (op = "write" /\ pc = "write_io" /\ recovered)]_vars

\* a write on an open device with frames queued, returned after recovery
\* has failed
C5_Witness_WriteAfterFailedRecovery ==
    Returned("write") /\ pcmHandle /\ ~recovered /\ arg = 1024 /\ hwQueued > 0
    /\ ret.frames = 0

\* C6: a write after start() whose status queries are answered XRUN and then
\* RUNNING, and whose transfer the sink accepts, returns the full frame
\* count and emits no Disconnected notification
C6_UnderrunInvisible ==
    (Returned("write") /\ started /\ answers = "xrun.running") =>
        (ret.frames = arg /\ ~emitted /\ notifs = 0)

\* such a write of 1024 frames
C6_Witness_WriteAfterUnderrun ==
    Returned("write") /\ started /\ answers = "xrun.running" /\ arg = 1024
    /\ ret.frames = 1024

\* C7: no operation other than start() issues a start command between a
\* successful init or a reset and the next start()
C7_NoStartBeforeExplicitStart ==
    cmd = "start" =>
        (op = "start" \/ trail \notin {"init", "init.write", "reset"})

\* C8: after a reset of an open device that leaves it prepared, the next
\* currentState() reports no queued samples and the started flag is clear
C8_ResetLeavesNothingQueued ==
    (Returned("currentState") /\ trail = "reset" /\ hw = "PREPARED") =>
        (ret.state.queuedSamples = 0 /\ ~started)

\* C9: a successful init followed by currentState() reports no queued
\* samples and free samples that are a multiple of the period size between
\* 0 and the buffer size
C9_InitThenStateEmpty ==
    (Returned("currentState") /\ trail = "init" /\ hw = "PREPARED" /\ ~started) =>
        /\ ret.state.queuedSamples = 0
        /\ ret.state.freeSamples >= 0
        /\ ret.state.freeSamples % periodSize = 0
        /\ ret.state.freeSamples <= bufferSize

\* C10: after a successful init, a write of 1024 frames returns 1024, and
\* after start() currentState() reports between 1 and 1024 queued samples
\* and bufferSize - queuedSamples, aligned to the period, free samples
C10_WriteStartThenState ==
    /\ (Returned("write") /\ trail = "init.write") => ret.frames = 1024
    /\ (Returned("currentState") /\ trail = "init.write.start") =>
           /\ ret.state.queuedSamples > 0
           /\ ret.state.queuedSamples <= 1024
           /\ ret.state.freeSamples
                  = ((bufferSize - ret.state.queuedSamples) \div periodSize)
                        * periodSize

\* C11: every OutputState returned by currentState(), with the device open
\* or closed and recovery succeeded or failed, has 0 <= freeSamples <=
\* bufferSize, freeSamples a multiple of periodSize, queuedSamples =
\* bufferSize - freeSamples and delay >= 0
C11_StateWellFormed ==
    Returned("currentState") =>
        /\ 0 <= ret.state.freeSamples
        /\ ret.state.freeSamples <= bufferSize
        /\ ret.state.freeSamples % periodSize = 0
        /\ ret.state.queuedSamples = bufferSize - ret.state.freeSamples
        /\ ret.state.delay >= 0

\* C12: uninit() leaves no handle, initialised false and started false; on a
\* device without a handle (never initialised, or already uninitialised) it
\* returns at once, issues no hardware call and changes neither the sink nor
\* the configuration
C12_UninitIdempotent ==
    [][/\ (pc' = "returned" /\ op' = "uninit") =>
              (~pcmHandle' /\ ~initialised' /\ ~started')
       /\ (pc = "idle" /\ op' = "uninit" /\ ~pcmHandle) =>
              (pc' = "returned" /\ cmd' = "none"
               /\ UNCHANGED <<sinkVars, cfgVars>>)]_vars

\* an uninit() without a hardware call on a device that an earlier init had
\* opened and that has been closed since
C12_Witness_UninitWhenClosed ==
    Returned("uninit") /\ cmd = "none" /\ request > 0 /\ ~pcmHandle
    /\ hw = "CLOSED"

\* C13: at every point of every sequence of calls, also inside an init on
\* an open device, at most one connection to a sink is open
C13_AtMostOneConnection == conns <= 1

\* C14: after an operation whose recovery has found the device lost and has
\* emitted Disconnected, no handle is held
C14_LossClosesHandle == (pc = "returned" /\ emitted) => ~pcmHandle

\* C15: the handlers of the Disconnected notification never run inside the
\* operation that detected the loss, whichever thread called it
C15_NeverDeliveredInsideCall == ~handled

\* C16: a pause command is issued only by setPaused(true) on a pausable
\* device whose state, read after recovery, is RUNNING, and an unpause
\* command only by setPaused(false) when that state is PAUSED; on a device
\* that is not pausable setPaused returns at once without any hardware call
C16_PauseOnlyWhenRunning ==
    [][/\ cmd' = "pause" =>
              (op = "setPaused" /\ pc = "pause_cmd" /\ pausable /\ arg = 1
               /\ cmd = "state" /\ hw = "RUNNING")
       /\ cmd' = "unpause" =>
              (op = "setPaused" /\ pc = "pause_cmd" /\ pausable /\ arg = 0
               /\ cmd = "state" /\ hw = "PAUSED")
       /\ (pc = "idle" /\ op' = "setPaused" /\ ~pausable) =>
              (pc' = "returned" /\ cmd' = "none" /\ UNCHANGED sinkVars)]_vars

\* a setPaused(true) that has paused a running stream
C16_Witness_Paused ==
    Returned("setPaused") /\ arg = 1 /\ cmd = "pause" /\ hw = "PAUSED"
    /\ pausable

\* C17: every transfer of write() hands to the sink the samples of the
\* caller's buffer scaled by the volume set last, and the caller's buffer
\* holds after the transfer what it held before
C17_VolumeScalesCopy ==
    [][cmd' = "writei" =>
           (sent' = buffer * volume /\ buffer' = buffer /\ volume' = volume)]_vars

\* a transfer at volume 2
C17_Witness_ScaledWrite ==
    Returned("write") /\ cmd = "writei" /\ volume = 2 /\ buffer = 5
    /\ sent = 10 /\ ret.frames = 1024

\* C18: setDevice(name) records the name, or keeps the previous one when
\* the name is empty; it issues no hardware call and leaves the handle, the
\* sink, the flags, the sizes, the format and the volume as they are; the
\* next snd_pcm_open of init uses the recorded name, which is never empty
C18_SetDeviceOnlyRecordsName ==
    [][/\ (pc = "idle" /\ op' = "setDevice") =>
              /\ pc' = "returned" /\ cmd' = "none"
              /\ device' = (IF arg' = "" THEN device ELSE arg')
              /\ UNCHANGED <<format, bufferSize, periodSize, pausable, volume,
                             initialised, pcmHandle, started, sinkVars>>
       /\ (cmd' = "open" /\ conns' = conns + 1) => hwDevice' = device
       /\ device' # ""]_vars

\* setDevice("") on a device opened as "default" after "hw:0,0" had been
\* recorded for the next init
C18_Witness_EmptyNameIgnored ==
    Returned("setDevice") /\ arg = "" /\ device = "hw:0,0" /\ pcmHandle
    /\ hwDevice = "default" /\ started

Names(devices) == [i \in 1..Len(devices) |-> devices[i].name]

\* C19: no two entries of the list returned by getAllDevices() have the
\* same name, whatever the hints and the cards are
C19_NoDuplicateNames ==
    Returned("getAllDevices") =>
        \A i, j \in 1..Len(ret.devices) :
            ret.devices[i].name = ret.devices[j].name => i = j

IsDefault(h) == h.name = "default"
NotDefault(h) == h.name # "default"
OutputHint(h) == h.name # Null /\ (h.io = Null \/ h.io = "Output")
WorkingDevices(devs) == Len(SelectSeq(devs, LAMBDA ok : ok))
WorkingCards(cards) == SelectSeq(cards, LAMBDA c : c.open /\ c.info)

\* C20, for hints that have a description: the result starts with the
\* listed hints named "default", goes on with the other listed hints in the
\* order of the hint list, and ends with the hardware entries, one for each
\* device of each card that answers; so a listed "default" is the first
\* entry wherever its hint stands, and every hardware entry comes after
\* every symbolic one
C20_DefaultFirstThenHintOrder ==
    Returned("getAllDevices") =>
        LET listed == SelectSeq(arg.hints, HintListed)
            defaults == SelectSeq(listed, IsDefault)
            others == SelectSeq(listed, NotDefault)
            working == WorkingCards(arg.cards)
            names == Names(ret.devices)
        IN  /\ Len(names) >= Len(listed)
            /\ SubSeq(names, 1, Len(listed)) = Names(defaults) \o Names(others)
            /\ Len(defaults) > 0 => names[1] = "default"
            /\ \A i \in Len(listed) + 1 .. Len(names) :
                   \E c \in 0..Len(arg.cards), d \in 0..2 :
                       ret.devices[i].name = HwName(c, d)
            /\ (Len(working) = 1 /\ Len(arg.cards) = 1) =>
                   Len(names) = Len(listed) + WorkingDevices(working[1].devs)

\* "default" listed as the last of three hints, with a hardware device
C20_Witness_DefaultLastInHints ==
    /\ Returned("getAllDevices")
    /\ Len(arg.hints) = 3 /\ arg.hints[3].name = "default"
    /\ HintListed(arg.hints[3])
    /\ arg.hints[1].name = "pulse" /\ arg.hints[2].name = "hw:0,0"
    /\ Names(ret.devices) = <<"default", "pulse", "hw:0,0", "hw:0,1">>

\* C20 as stated: whenever the hint list names an output device "default",
\* the first entry of the result is "default"
C20_DefaultFirstForEveryHint ==
    (Returned("getAllDevices")
     /\ \E i \in 1..Len(arg.hints) :
            IsDefault(arg.hints[i]) /\ OutputHint(arg.hints[i])) =>
        (Len(ret.devices) > 0 /\ ret.devices[1].name = "default")

\* C21: getAllDevices() returns in every state of the device, before init,
\* while open and after uninit or a loss, issues no command on the playback
\* handle and leaves the handle, the flags, the sizes, the volume, the
\* device name and the sink as they are
C21_EnumerationLeavesDeviceAlone ==
    [][(pc = "idle" /\ op' = "getAllDevices") =>
           (pc' = "returned" /\ cmd' = "none"
            /\ UNCHANGED <<privVars, sinkVars>>)]_vars

\* an enumeration on an open, started device that has lost its sink
C21_Witness_EnumerationWhileOpen ==
    Returned("getAllDevices") /\ pcmHandle /\ started /\ initialised
    /\ hw = "DISCONNECTED" /\ Len(ret.devices) = 1

\* C22: bufferSize and periodSize change only in the negotiation of init;
\* write, start, reset, setPaused, currentState, setVolume, setDevice,
\* getAllDevices, uninit and every step of recovery leave both as they are
C22_SizesChangeOnlyInInit ==
    [][(bufferSize' # bufferSize \/ periodSize' # periodSize) =>
           (op = "init" /\ pc = "init_hw")]_vars

\* a reset that went through recovery on a device that negotiated 3000 frames
C22_Witness_ResetKeepsNegotiatedSize ==
    Returned("reset") /\ pcmHandle /\ bufferSize = 3000
    /\ bufferSize # PreferredBufferSize

\* C23: every init that gets as far as the buffer size asks the hardware for
\* the preferred 8192 frames clamped to the maximum of the device it opened,
\* whatever earlier inits negotiated
C23_RequestIsPreferredClamped ==
    (Returned("init") /\ ret.ok) =>
        request = Min(PreferredBufferSize, HwProfile(hwDevice).maxBuffer)

\* C24: the format table: U8 to unsigned 8-bit, S16 to signed 16-bit, S24
\* and S32 to the signed 32-bit container, Float to 32-bit float, anything
\* else to no format; an init with a format that maps to none returns false
\* with the device closed
C24_FormatTable ==
    /\ findAlsaFormat("U8") = "SND_U8"
    /\ findAlsaFormat("S16") = "SND_S16"
    /\ findAlsaFormat("S24") = "SND_S32"
    /\ findAlsaFormat("S32") = "SND_S32"
    /\ findAlsaFormat("Float") = "SND_FLOAT"
    /\ \A f \in {"Unknown", "S64", ""} : findAlsaFormat(f) = "SND_UNKNOWN"
    /\ (Returned("init") /\ findAlsaFormat(format) = "SND_UNKNOWN") =>
           (~ret.ok /\ ~pcmHandle /\ ~initialised /\ conns = 0)

\* an init with the Unknown format that opened the device and gave it up
C24_Witness_UnknownFormatRefused ==
    Returned("init") /\ format = "Unknown" /\ cmd = "close" /\ ~ret.ok
    /\ ~pcmHandle

\* the states the switch of attemptRecovery takes for a lost device:
\* DISCONNECTED, OPEN, SETUP and whatever falls to default
LostStates ==
    PcmStates \ {"RUNNING", "PAUSED", "PREPARED", "DRAINING", "XRUN",
                 "SUSPENDED"}

\* the position after a continue taken at iteration k
AfterContinue(k) ==
    IF k + 1 < RecoveryAttempts THEN "rec_status" ELSE "rec_done"

\* C25: recovery reports success exactly when the last state it has seen is
\* Running, Paused, or Prepared with started clear; it then returns straight
\* from the status query that answered so, with no other hardware command
\* after it
C25_SuccessIffSettled ==
    pc = "rec_done" =>
        /\ recovered <=> \/ pcmst \in {"RUNNING", "PAUSED"}
                         \/ pcmst = "PREPARED" /\ ~started
        /\ recovered => /\ cmd = "status" /\ err = "OK"
                        /\ status.state = pcmst /\ hw = pcmst

\* a recovery that succeeds at once on a prepared stream not yet started
C25_Witness_PreparedNotStarted ==
    /\ pc = "rec_done" /\ recovered /\ pcmst = "PREPARED" /\ ~started
    /\ nStatus = 1 /\ cmd = "status"

\* C26: one recovery call issues the automatic recover at most once: the
\* first transient failure of the status query (EPIPE, EINTR, ESTRPIPE) is
\* answered with recover and a new query, which uses up an iteration; the
\* attempt is remembered to the end of the call, and every later transient
\* failure is taken as an underrun and answered with prepare
C26_RecoverAtMostOnce ==
    [][/\ (pc = "rec_status" /\ err' \in TransientErrors) =>
              IF autoRecoverAttempted
              THEN pc' = "rec_prepare" /\ pcmst' = "XRUN"
              ELSE pc' = "rec_recover" /\ autoRecoverAttempted'
       /\ pc' = "rec_recover" => (pc = "rec_status" /\ ~autoRecoverAttempted)
       /\ cmd' = "recover" =>
              (pc = "rec_recover" /\ n' = n + 1 /\ pc' = AfterContinue(n))
       /\ pc = "rec_prepare" => cmd' = "prepare"
       /\ (autoRecoverAttempted /\ ~autoRecoverAttempted') =>
              pc' = "returned"]_vars

\* a second transient failure about to be answered with prepare
C26_Witness_SecondTransient ==
    /\ pc = "rec_prepare" /\ err \in TransientErrors /\ autoRecoverAttempted
    /\ pcmst = "XRUN" /\ hw # "XRUN" /\ nStatus = 2

\* C27: a query that answers Prepared while started is set is followed by
\* start and, unless that was the fifth iteration, a new query; with started
\* set recovery succeeds only on a query answering Running or Paused, and it
\* fails after five iterations when the device stays Prepared
C27_PreparedStartedRestarts ==
    [][/\ (pc = "rec_status" /\ err' = "OK" /\ pcmst' = "PREPARED" /\ started)
              => (pc' = "rec_start" /\ ~recovered' /\ ~emitted')
       /\ pc = "rec_start" =>
              /\ cmd' = "start" /\ n' = n + 1 /\ pc' = AfterContinue(n)
              /\ ~recovered' /\ ~emitted'
       /\ (pc' = "rec_done" /\ recovered' /\ started) =>
              /\ pc = "rec_status" /\ err' = "OK"
              /\ pcmst' \in {"RUNNING", "PAUSED"}
       /\ (pc' = "rec_done" /\ pcmst' = "PREPARED" /\ started) =>
              (~recovered' /\ n' = RecoveryAttempts)]_vars

\* five queries have answered Prepared with started set
C27_Witness_NeverStarts ==
    /\ pc = "rec_done" /\ n = RecoveryAttempts /\ nStatus = RecoveryAttempts
    /\ pcmst = "PREPARED" /\ started /\ ~recovered /\ cmd = "start"

\* C28: a query that answers Suspended is followed by resume; after EAGAIN
\* and after any result other than ENOSYS the loop continues without a
\* prepare, after ENOSYS it continues after a prepare; continuing means a new
\* query unless the iteration was the fifth, in which case recovery returns
\* failure; no notification is emitted on the way
C28_SuspendedResumes ==
    [][/\ (pc = "rec_status" /\ err' = "OK" /\ pcmst' = "SUSPENDED") =>
              (pc' = "rec_resume" /\ ~recovered' /\ ~emitted')
       /\ pc = "rec_resume" =>
              /\ cmd' = "resume" /\ ~emitted' /\ notifs' = notifs
              /\ IF err' = "ENOSYS"
                 THEN pc' = "rec_resume_prepare" /\ n' = n
                 ELSE n' = n + 1 /\ pc' = AfterContinue(n) /\ ~recovered'
       /\ pc = "rec_resume_prepare" =>
              /\ cmd' = "prepare" /\ ~emitted' /\ notifs' = notifs
              /\ n' = n + 1 /\ pc' = AfterContinue(n) /\ ~recovered']_vars

\* the fifth query answers Suspended, resume says EAGAIN and recovery returns
C28_Witness_SuspendedAtFifth ==
    /\ pc = "rec_done" /\ n = RecoveryAttempts /\ pcmst = "SUSPENDED"
    /\ cmd = "resume" /\ err = "EAGAIN" /\ ~recovered /\ ~emitted

\* C28 as stated: recovery never returns from a resume, or from the prepare
\* that stands in for it, without a new query, and emits nothing
C28_SuspendedAlwaysRequeried ==
    pc = "rec_done" =>
        /\ cmd # "resume"
        /\ ~(cmd = "prepare" /\ pcmst = "SUSPENDED")
        /\ pcmst = "SUSPENDED" => ~emitted

\* C29: a query that answers Disconnected, Open, Setup or an unknown state
\* makes recovery emit Disconnected, once, and return failure from that
\* very iteration: no prepare, start or resume and no further query follow
C29_LostDeviceReportedAtOnce ==
    [][/\ (pc = "rec_status" /\ err' = "OK" /\ status'.state \in LostStates)
              => /\ pc' = "rec_done" /\ ~recovered' /\ n' = n
                 /\ ~emitted /\ emitted'
                 /\ notifs' \in {1, Min(notifs + 1, MaxNotifs)}
       /\ (pc = "rec_done" /\ emitted) =>
              /\ cmd' = "none" /\ pc' \in {"returned", "pause_state"}
              /\ emitted' /\ notifs' = notifs]_vars

\* the third query of a call answers with a state the switch does not know
C29_Witness_UnknownState ==
    /\ pc = "rec_done" /\ err = "OK" /\ pcmst = "PRIVATE1" /\ n = 2
    /\ emitted /\ ~recovered /\ cmd = "status"

\* C30: Disconnected is emitted only when a status query has answered with a
\* lost state; a recovery that uses up its five iterations emits nothing, and
\* nothing is emitted without a handle
C30_EmittedOnlyOnObservedLoss ==
    /\ (pc = "rec_done" /\ emitted) => (err = "OK" /\ hw \in LostStates)
    /\ (pc = "rec_done" /\ n = RecoveryAttempts) => ~emitted
    /\ ~pcmHandle => ~emitted

\* C31: getAllDevices() returns whatever the host does, also when a card
\* answers every next-device query with an error
C31_EnumerationTerminates ==
    (op = "getAllDevices" /\ pc \in {"hw_card", "hw_dev"})
        ~> Returned("getAllDevices")

\* C32: after every init that returns true the started flag is clear, also
\* when the instance was started and not uninitialised before that init
C32_InitClearsStarted ==
    (Returned("init") /\ ret.ok) => ~started

\* C33: uninit() on an open device issues drain, then drop, then closes the
\* handle, in that order and nothing else; when it returns the handle is
\* gone and started and initialised are both false
C33_UninitDrainDropClose ==
    [][/\ (pc = "idle" /\ op' = "uninit" /\ pcmHandle) =>
              (pc' = "un_drain" /\ cmd' = "none" /\ UNCHANGED sinkVars)
       /\ pc = "un_drain" =>
              (cmd' = "drain" /\ pc' = "un_drop" /\ pcmHandle' /\ conns' = conns)
       /\ pc = "un_drop" =>
              (cmd' = "drop" /\ pc' = "un_close" /\ pcmHandle' /\ conns' = conns)
       /\ pc = "un_close" =>
              /\ cmd' = "close" /\ pc' = "returned" /\ conns' = conns - 1
              /\ ~pcmHandle' /\ ~started' /\ ~initialised'
       /\ cmd' \in {"drain", "close"} => op \in {"uninit", "init"}]_vars

\* an uninit() that has drained, dropped and closed an open device
C33_Witness_UninitClosedDevice ==
    Returned("uninit") /\ cmd = "close" /\ ~pcmHandle /\ ~started
    /\ ~initialised /\ hw = "CLOSED" /\ conns = 0

\* C34: whenever no operation is running, initialised is true exactly when
\* the instance holds a handle
C34_InitialisedIffHandle ==
    pc \in {"idle", "returned"} => (initialised <=> pcmHandle)

\* a write() has found the device lost: the handle and initialised both stay
C34_Witness_LostButInitialised ==
    Returned("write") /\ emitted /\ hw = "DISCONNECTED" /\ initialised
    /\ pcmHandle

\* the hardware calls made with a null handle
NullCalls == {"null:drop", "null:prepare", "null:start", "null:state"}

\* C35: no operation calls into the audio subsystem with a null handle
C35_NoCallOnAbsentHandle ==
    cmd \notin NullCalls /\ pc # "crashed"

\* C37: setPaused stores nothing: no step of it changes a field of the
\* instance, and when the state it reads after recovery does not match the
\* request it returns without a pause command; so a start() on a prepared
\* device sets it running, whether or not a setPaused(true) came before
C37_NoStoredPauseRequest ==
    [][/\ (op' = "setPaused" /\ pc # "returned") => UNCHANGED privVars
       /\ (pc = "pause_state" /\ pcmHandle /\ pc' # "crashed"
           /\ ~(hw' = "RUNNING" /\ arg = 1) /\ ~(hw' = "PAUSED" /\ arg = 0)) =>
              (pc' = "returned" /\ cmd' = "state")
       /\ cmd' \in {"pause", "unpause"} => pc = "pause_cmd"
       /\ (pc = "idle" /\ op' = "start" /\ pcmHandle /\ hw = "PREPARED") =>
              (hw' = "RUNNING" /\ started' /\ cmd' = "start")]_vars

\* a setPaused(true) that found the device prepared and not started
C37_Witness_PauseWhilePrepared ==
    Returned("setPaused") /\ arg = 1 /\ cmd = "state" /\ hw = "PREPARED"
    /\ ~started /\ pausable /\ pcmHandle

\* C36: a setVolume or setDevice of a second thread that falls inside an
\* operation of the delivery thread changes the volume or the device name
\* and nothing else: not the position of the operation, its last hardware
\* command, the handle, the flags, the sizes or the sink; no operation dies
\* of it; and a transfer is scaled by the one volume it reads
C36_SettersDoNotDisturb ==
    [][/\ (Running /\ (volume' # volume \/ device' # device)) =>
              UNCHANGED <<pc, op, cmd, pcmHandle, started, initialised,
                          bufferSize, periodSize, sinkVars, sent, ret>>
       /\ device' # device => pc' # "crashed"
       /\ cmd' = "writei" => sent' = scale(buffer, volume)]_vars

====
